---- MODULE Spec2Model ----
(***************************************************************************)
(* A model of the MCQ assessment app: app.py (one Streamlit script run per *)
(* user interaction, mutating st.session_state) and state_utils.py (the    *)
(* state.json store, read whole and written whole on every save).          *)
(*                                                                         *)
(* Text the code takes apart (choice keys, choice texts, radio labels) is  *)
(* a sequence of one-character strings; other strings are atomic.  Times   *)
(* are fixed point: one unit is 1/Scale of a second.                       *)
(***************************************************************************)
EXTENDS Integers, Sequences, FiniteSets, TLC

VARIABLES
    username,       \* st.session_state.username (the text field)
    exam_label,     \* st.session_state.exam_label (the selector)
    exam_code,      \* st.session_state.exam_code
    session,        \* st.session_state.session: None or a session dict
    current_index,  \* st.session_state.current_index
    last_tick,      \* st.session_state.last_tick
    show_summary,   \* st.session_state.show_summary
    questions,      \* st.session_state.questions: the loaded bank
    file,           \* state.json
    bank,           \* the question bank files, by exam code (never written)
    names,          \* the names typed into the username field
    times,          \* the values time.time() returns
    notice,         \* what the last run reported: st.error, st.success, st.warning, the feedback
    latest,         \* per question of the active session, the last choice submitted since creation
    deltas,         \* the positive deltas seen by a series of update_timer calls
    last_saved,     \* per key, the last session a series of save_session calls saved
    writers         \* per concurrent process, where it is in its save_session call

vars == <<username, exam_label, exam_code, session, current_index, last_tick,
          show_summary, questions, file, bank, names, times, notice, latest, deltas,
          last_saved, writers>>

----------------------------------------------------------------------------
(* Bounds of the model *)

\* clock units in a second
Scale == 2
\* the last clock value: where the answers are followed, where the time is,
\* and in a series of update_timer calls
MaxClock == 1
MaxLongClock == 2
MaxTimerClock == 4
\* the seconds a session is followed for
MaxElapsed == 1
\* the update_timer calls of a series
MaxCalls == 3

----------------------------------------------------------------------------
(* Python values *)

None == [py |-> "None"]
PyStr(s) == [py |-> "str", v |-> s]
PyBool(b) == [py |-> "bool", v |-> b]

\* Python truthiness of None, a str or a bool
Truthy(x) ==
    CASE x.py = "None" -> FALSE
      [] x.py = "str" -> x.v # <<>>
      [] x.py = "bool" -> x.v

EmptyDict == [k \in {} |-> None]

DictGet(d, k) == IF k \in DOMAIN d THEN d[k] ELSE None

DictSet(d, k, val) == [x \in (DOMAIN d) \cup {k} |-> IF x = k THEN val ELSE d[x]]

----------------------------------------------------------------------------
(* JSON documents, as json.dumps writes them and json.loads reads them *)

JNull == [j |-> "null"]
JBool(b) == [j |-> "bool", v |-> b]
JNum(n) == [j |-> "num", v |-> n]
JStr(s) == [j |-> "str", v |-> s]
JArr(a) == [j |-> "arr", v |-> a]
JObj(f) == [j |-> "obj", v |-> f]
\* text that json.loads rejects
Invalid == [j |-> "invalid"]

\* json.dumps of None, a str or a bool
DumpOpt(x) ==
    CASE x.py = "None" -> JNull
      [] x.py = "str" -> JStr(x.v)
      [] x.py = "bool" -> JBool(x.v)

\* json.loads of null, a string or true/false
LoadOpt(d) ==
    CASE d.j = "null" -> None
      [] d.j = "str" -> PyStr(d.v)
      [] d.j = "bool" -> PyBool(d.v)

DumpResponse(r) ==
    JObj([choice |-> DumpOpt(r.choice), correct |-> DumpOpt(r.correct),
          review |-> JBool(r.review)])

LoadResponse(d) ==
    [choice |-> LoadOpt(d.v.choice), correct |-> LoadOpt(d.v.correct),
     review |-> d.v.review.v]

\* json.dumps of a session dict
DumpSession(s) ==
    JObj([username |-> JStr(s.username),
          exam_code |-> JStr(s.exam_code),
          exam_label |-> JStr(s.exam_label),
          question_order |-> JArr([i \in DOMAIN s.question_order |-> JStr(s.question_order[i])]),
          responses |-> JObj([q \in DOMAIN s.responses |-> DumpResponse(s.responses[q])]),
          elapsed_seconds |-> JNum(s.elapsed_seconds),
          completed |-> JBool(s.completed),
          started_at |-> JNum(s.started_at)])

\* json.loads of a stored session
LoadSession(d) ==
    [username |-> d.v.username.v,
     exam_code |-> d.v.exam_code.v,
     exam_label |-> d.v.exam_label.v,
     question_order |-> [i \in DOMAIN d.v.question_order.v |-> d.v.question_order.v[i].v],
     responses |-> [q \in DOMAIN d.v.responses.v |-> LoadResponse(d.v.responses.v[q])],
     elapsed_seconds |-> d.v.elapsed_seconds.v,
     completed |-> d.v.completed.v,
     started_at |-> d.v.started_at.v]

\* json.loads of a value stored under a user block: null or a session
LoadLeaf(d) == IF d.j = "obj" THEN LoadSession(d) ELSE None

----------------------------------------------------------------------------
(* state_utils.py.  A file is [exists, content]; the loaded global state   *)
(* is kept as the parsed document, and the session assigned into it is     *)
(* serialised where it is assigned.                                        *)

NoFile == [exists |-> FALSE, content |-> Invalid]
TextFile(doc) == [exists |-> TRUE, content |-> doc]

\* _load_global_state: {} when the file is absent or json.loads raises
load_global_state(f) ==
    IF f.exists
    THEN IF f.content.j = "invalid" THEN JObj(EmptyDict) ELSE f.content
    ELSE JObj(EmptyDict)

\* _save_global_state
save_global_state(state) == TextFile(state)

\* global_state.get raises AttributeError unless global_state is a dict
GetRaises(f) == load_global_state(f).j # "obj"

\* get_session, where it does not raise
get_session(f, u, e) ==
    LET global_state == load_global_state(f)
        user_block == DictGet(global_state.v, u)
    IN  IF user_block = None \/ user_block.j # "obj"
        THEN None
        ELSE IF e \in DOMAIN user_block.v THEN LoadLeaf(user_block.v[e]) ELSE None

\* as save_session_state, the user's block started afresh
save_session_state_new_block(global_state, u, e, s) ==
    JObj(DictSet(global_state.v, u, JObj(DictSet(EmptyDict, e, DumpSession(s)))))

\* the mutation save_session makes to the loaded state
save_session_state(global_state, u, e, s) ==
    LET found == DictGet(global_state.v, u)
        user_block == IF found = None \/ found.j # "obj" THEN EmptyDict ELSE found.v
    IN  JObj(DictSet(global_state.v, u, JObj(DictSet(user_block, e, DumpSession(s)))))

\* save_session, where it does not raise: the file it leaves
save_session(f, u, e, s) ==
    save_global_state(save_session_state(load_global_state(f), u, e, s))

----------------------------------------------------------------------------
(* The question banks.  A question keeps the fields the session engine     *)
(* reads: choices (key -> text) and correct_answer.                        *)

EXAM_OPTIONS ==
    [l \in {"Databricks Certified Data Engineer Associate",
            "Databricks Certified Data Engineer Professional"} |->
        IF l = "Databricks Certified Data Engineer Associate"
        THEN "associate" ELSE "professional"]

ExamLabels == DOMAIN EXAM_OPTIONS
FirstExamLabel == "Databricks Certified Data Engineer Associate"
ExamCodes == {EXAM_OPTIONS[l] : l \in ExamLabels}

\* the bank of the testable scenario: Q1 answered by A, Q2 answered by B
Q1 == [choices |-> (<<"A">> :> <<"x">>),
       correct_answer |-> <<"A">>]
Q2 == [choices |-> (<<"B">> :> <<"x">>) @@ (<<"C">> :> <<"(", "y", ")">>),
       correct_answer |-> <<"B">>]
\* a question whose choice keys carry their own bracket: "a)" and "b)"
Q3 == [choices |-> (<<"a", ")">> :> <<"x">>) @@ (<<"b", ")">> :> <<"y">>),
       correct_answer |-> <<"a", ")">>]

BankLetters == [c \in {"associate", "professional"} |->
                  IF c = "associate" THEN ("Q1" :> Q1) @@ ("Q2" :> Q2) ELSE EmptyDict]
BankOne == [c \in {"associate", "professional"} |->
                  IF c = "associate" THEN ("Q2" :> Q2) ELSE EmptyDict]
\* two exams of different lengths
BankTwoSizes == [c \in {"associate", "professional"} |->
                  IF c = "associate" THEN ("Q1" :> Q1) @@ ("Q2" :> Q2) ELSE ("Q2" :> Q2)]
BankBracketed == [c \in {"associate", "professional"} |->
                  IF c = "associate" THEN ("Q3" :> Q3) ELSE EmptyDict]

\* load_questions_for_exam: the bank file of the exam, keyed by question_id
load_questions_for_exam(code) == bank[code]

\* Python's order of the question ids used here
QidRank == ("Q1" :> 1) @@ ("Q10" :> 2) @@ ("Q2" :> 3) @@ ("Q3" :> 4)

----------------------------------------------------------------------------
(* Lists *)

Range(seq) == {seq[i] : i \in DOMAIN seq}

\* the lists that hold each element of S once: the orders a dict can iterate
\* in, and the outcomes of random.shuffle
Orderings(S) ==
    {seq \in [1 .. Cardinality(S) -> S] : Range(seq) = S}

RECURSIVE Insert(_, _)
Insert(x, sorted) ==
    IF sorted = <<>> THEN <<x>>
    ELSE IF QidRank[x] <= QidRank[Head(sorted)] THEN <<x>> \o sorted
    ELSE <<Head(sorted)>> \o Insert(x, Tail(sorted))

\* as Sort, the list left in the order the dict iterates in
SortKeepsOrder(seq) == seq

\* list.sort on question ids
RECURSIVE Sort(_)
Sort(seq) == IF seq = <<>> THEN <<>> ELSE Insert(Head(seq), Sort(Tail(seq)))

\* str.split(")")[0]: the text before the first ")"
RECURSIVE SplitFirst(_)
SplitFirst(text) ==
    IF text = <<>> THEN <<>>
    ELSE IF Head(text) = ")" THEN <<>>
    ELSE <<Head(text)>> \o SplitFirst(Tail(text))

\* f"{opt}) {text}"
Label(opt, text) == opt \o <<")", " ">> \o text

\* str.strip on a username
Strip(u) == IF u = " " THEN "" ELSE u

----------------------------------------------------------------------------
(* app.py: session creation, timer, summary *)

CreateRaises(qs) == DOMAIN qs = {}

\* as create_new_session, drawing the order with replacement
create_new_session_repeats(u, label, code, keys, shuffle, shuffled, now) ==
    LET qids == IF shuffle THEN [i \in DOMAIN shuffled |-> shuffled[1]] ELSE Sort(keys)
    IN  [username |-> u,
         exam_code |-> code,
         exam_label |-> label,
         question_order |-> qids,
         responses |-> [q \in Range(qids) |->
                          [choice |-> None, correct |-> None, review |-> FALSE]],
         elapsed_seconds |-> 0,
         completed |-> FALSE,
         started_at |-> now]

\* create_new_session, where it does not raise.  keys is the order the
\* questions dict iterates in, shuffled the outcome of random.shuffle.
create_new_session(u, label, code, keys, shuffle, shuffled, now) ==
    LET qids == IF shuffle THEN shuffled ELSE Sort(keys)
    IN  [username |-> u,
         exam_code |-> code,
         exam_label |-> label,
         question_order |-> qids,
         responses |-> [q \in Range(qids) |->
                          [choice |-> None, correct |-> None, review |-> FALSE]],
         elapsed_seconds |-> 0,
         completed |-> FALSE,
         started_at |-> now]

\* as IntSeconds, rounding up
IntSecondsUp(delta) == (delta + Scale - 1) \div Scale

\* int(delta) of a positive delta
IntSeconds(delta) == delta \div Scale

\* as update_timer, the save filed under the sidebar fields
update_timer_under_fields(S, now) ==
    IF S.session = None THEN S
    ELSE LET delta == now - S.last_tick
         IN  IF delta > 0
             THEN [S EXCEPT !.session.elapsed_seconds = @ + IntSeconds(delta),
                            !.last_tick = now,
                            !.file = save_session(S.file, S.username, S.exam_code,
                                        [S.session EXCEPT !.elapsed_seconds =
                                                              @ + IntSeconds(delta)])]
             ELSE S

\* as update_timer, without the save
update_timer_unsaved(S, now) ==
    IF S.session = None THEN S
    ELSE LET delta == now - S.last_tick
         IN  IF delta > 0
             THEN [S EXCEPT !.session.elapsed_seconds = @ + IntSeconds(delta),
                            !.last_tick = now]
             ELSE S

\* update_timer on the app state S, time.time() returning now
update_timer(S, now) ==
    IF S.session = None THEN S
    ELSE LET delta == now - S.last_tick
         IN  IF delta > 0
             THEN LET s == [S.session EXCEPT
                              !.elapsed_seconds = @ + IntSeconds(delta)]
                  IN  [S EXCEPT !.session = s,
                                !.last_tick = now,
                                !.file = save_session(S.file, s.username, s.exam_code, s)]
             ELSE S

\* as Attempted, testing the correct field
AttemptedIfCorrect(r) == Truthy(r.correct)

\* line 127: the response counts as attempted
Attempted(r) == Truthy(r.choice)
\* lines 127-129: the response counts as correct
AttemptedCorrect(r) == Truthy(r.choice) /\ Truthy(r.correct)

\* as summary_incorrect, counting the unanswered questions too
summary_incorrect_of_total(attempted, correct, total) == total - correct

\* line 131
summary_incorrect(attempted, correct, total) == attempted - correct

\* compute_summary; percent is the fraction num/den
compute_summary(s) ==
    LET attempted == Cardinality({q \in DOMAIN s.responses : Attempted(s.responses[q])})
        correct == Cardinality({q \in DOMAIN s.responses :
                                   AttemptedCorrect(s.responses[q])})
    IN  [attempted |-> attempted,
         correct |-> correct,
         incorrect |-> summary_incorrect(attempted, correct, Cardinality(DOMAIN s.responses)),
         percent |-> IF attempted > 0
                     THEN [num |-> correct * 100, den |-> attempted]
                     ELSE [num |-> 0, den |-> 1]]

----------------------------------------------------------------------------
(* app.py: one script run.  S is the app state: st.session_state and the   *)
(* file.  ev is the widget event that caused the run.                      *)

\* as StartNewTest, dropping the active session when creation fails
StartNewTestClears(S, keys, shuffle, shuffled, now) ==
    LET qs == load_questions_for_exam(S.exam_code)
        S1 == [S EXCEPT !.questions = qs]
    IN  IF CreateRaises(qs)
        THEN [S1 EXCEPT !.session = None]
        ELSE LET s == create_new_session(S.username, S.exam_label, S.exam_code,
                                         keys, shuffle, shuffled, now)
             IN  [S1 EXCEPT !.session = s,
                            !.current_index = 0,
                            !.last_tick = now,
                            !.show_summary = FALSE,
                            !.file = save_session(S.file, s.username, s.exam_code, s)]

\* as StartNewTest, the question on screen kept
StartNewTestKeepsIndex(S, keys, shuffle, shuffled, now) ==
    LET qs == load_questions_for_exam(S.exam_code)
        S1 == [S EXCEPT !.questions = qs]
    IN  IF CreateRaises(qs)
        THEN S1
        ELSE LET s == create_new_session(S.username, S.exam_label, S.exam_code,
                                         keys, shuffle, shuffled, now)
             IN  [S1 EXCEPT !.session = s,
                            !.last_tick = now,
                            !.show_summary = FALSE,
                            !.file = save_session(S.file, s.username, s.exam_code, s)]

\* the handler of "Start New Test", lines 183-204
StartNewTest(S, keys, shuffle, shuffled, now) ==
    LET qs == load_questions_for_exam(S.exam_code)
        S1 == [S EXCEPT !.questions = qs]
    IN  IF CreateRaises(qs)
        THEN S1
        ELSE LET s == create_new_session(S.username, S.exam_label, S.exam_code,
                                         keys, shuffle, shuffled, now)
             IN  [S1 EXCEPT !.session = s,
                            !.current_index = 0,
                            !.last_tick = now,
                            !.show_summary = FALSE,
                            !.file = save_session(S.file, s.username, s.exam_code, s)]

\* as ResumeLastTest, the resumed session stamped with the time of the resume
ResumeLastTestRestamps(S, now) ==
    LET saved == get_session(S.file, S.username, S.exam_code)
    IN  IF saved # None
        THEN [S EXCEPT !.session = [saved EXCEPT !.started_at = now],
                       !.current_index = 0,
                       !.last_tick = now,
                       !.show_summary = saved.completed,
                       !.questions = load_questions_for_exam(saved.exam_code)]
        ELSE S

\* the handler of "Resume Last Test", lines 207-220
ResumeLastTest(S, now) ==
    LET saved == get_session(S.file, S.username, S.exam_code)
    IN  IF saved # None
        THEN [S EXCEPT !.session = saved,
                       !.current_index = 0,
                       !.last_tick = now,
                       !.show_summary = saved.completed,
                       !.questions = load_questions_for_exam(saved.exam_code)]
        ELSE S

\* as FinishTest, without the save
FinishTestUnsaved(S) ==
    [S EXCEPT !.session.completed = TRUE, !.show_summary = TRUE]

\* the handler of "Finish Test & View Summary", lines 308-311
FinishTest(S) ==
    LET s == [S.session EXCEPT !.completed = TRUE]
    IN  [S EXCEPT !.session = s,
                  !.file = save_session(S.file, s.username, s.exam_code, s),
                  !.show_summary = TRUE]

\* show_navigator: the Go box, the question buttons and Finish
show_navigator(S, ev) ==
    CASE ev.name = "go" -> [S EXCEPT !.current_index = ev.num - 1]
      [] ev.name = "nav" -> [S EXCEPT !.current_index = ev.num - 1]
      [] ev.name = "finish" -> FinishTest(S)
      [] OTHER -> S

\* as SubmitRecord, keeping the correctness of the first submission
SubmitRecordStaleCorrect(r, q, selected_choice) ==
    [r EXCEPT !.choice = PyStr(selected_choice),
              !.correct = IF r.correct = None
                          THEN PyBool(selected_choice = q.correct_answer) ELSE r.correct]

\* the response the Submit Answer handler records, lines 366-367
SubmitRecord(r, q, selected_choice) ==
    [r EXCEPT !.choice = PyStr(selected_choice),
              !.correct = PyBool(selected_choice = q.correct_answer)]

\* as SubmitAnswer, the first answer standing
SubmitAnswerKeepsFirst(S, qid, q, selected_choice) ==
    LET s == IF S.session.responses[qid].choice = None
             THEN [S.session EXCEPT
                     !.responses[qid] = SubmitRecord(@, q, selected_choice)]
             ELSE S.session
    IN  [S EXCEPT !.session = s,
                  !.file = save_session(S.file, s.username, s.exam_code, s)]

\* the handler of "Submit Answer", lines 365-368
SubmitAnswer(S, qid, q, selected_choice) ==
    LET s == [S.session EXCEPT
                !.responses[qid] = SubmitRecord(@, q, selected_choice)]
    IN  [S EXCEPT !.session = s,
                  !.file = save_session(S.file, s.username, s.exam_code, s)]

\* as SetReview, a marked question losing its answer
SetReviewClearsAnswer(S, qid, review_flag) ==
    [S EXCEPT !.session.responses[qid] =
        IF review_flag
        THEN [choice |-> None, correct |-> None, review |-> TRUE]
        ELSE [@ EXCEPT !.review = FALSE]]

\* the review checkbox, lines 353-358
SetReview(S, qid, review_flag) ==
    [S EXCEPT !.session.responses[qid].review = review_flag]

\* qids[idx] raises IndexError; a negative idx counts from the end
IndexRaises(qids, idx) == idx >= Len(qids) \/ idx < 0 - Len(qids)

\* qids[idx], where it does not raise
ListItem(qids, idx) == IF idx >= 0 THEN qids[idx + 1] ELSE qids[Len(qids) + idx + 1]

\* show_question_panel, from line 324 on
question_panel(S, ev) ==
    LET qids == S.session.question_order
        total == Len(qids)
        idx == S.current_index
        qid == ListItem(qids, idx)
        q == S.questions[qid]
        r == S.session.responses[qid]
        selected_label == IF ev.name = "submit"
                          THEN Label(ev.opt, q.choices[ev.opt])
                          ELSE <<>>
        selected_choice == SplitFirst(selected_label)
        review_flag == IF ev.name = "review" THEN ev.flag ELSE r.review
        S1 == SetReview(S, qid, review_flag)
    IN  CASE ev.name = "submit" -> SubmitAnswer(S1, qid, q, selected_choice)
          [] ev.name = "prev" ->
                [S1 EXCEPT !.current_index = IF idx - 1 > 0 THEN idx - 1 ELSE 0]
          [] ev.name = "next" ->
                [S1 EXCEPT !.current_index =
                    IF idx + 1 < total - 1 THEN idx + 1 ELSE total - 1]
          [] OTHER -> S1

\* show_question_panel: the run ends at line 323 when the index is out of range
show_question_panel(S, ev) ==
    IF IndexRaises(S.session.question_order, S.current_index)
    THEN S
    ELSE question_panel(S, ev)

\* the events after which the handler calls st.experimental_rerun()
Reruns(ev) == ev.name \in {"finish", "prev", "next"}

\* the sidebar, lines 163-220: the two fields, then the two buttons
sidebar(S, ev, now) ==
    LET u == IF ev.name = "edit" THEN ev.username ELSE S.username
        l == IF ev.name = "select" THEN ev.label ELSE S.exam_label
        S1 == [S EXCEPT !.username = u, !.exam_label = l,
                        !.exam_code = EXAM_OPTIONS[l]]
    IN  IF Strip(u) # ""
        THEN CASE ev.name = "start" ->
                    StartNewTest(S1, ev.keys, ev.shuffle, ev.shuffled, now)
               [] ev.name = "resume" -> ResumeLastTest(S1, now)
               [] OTHER -> S1
        ELSE S1

\* lines 241-242: the questions are loaded again when the dict is empty
reload_questions(S) ==
    IF DOMAIN S.questions = {}
    THEN [S EXCEPT !.questions = load_questions_for_exam(S.session.exam_code)]
    ELSE S

\* lines 257-261: the question panel, which the rerun of Finish cuts off
right_column(S, ev) ==
    IF ev.name = "finish" THEN S ELSE show_question_panel(S, ev)

\* as layout, a completed session still given its navigator and panel
layout_after_completion(S, ev) ==
    IF S.show_summary /\ ~S.session.completed
    THEN S
    ELSE right_column(show_navigator(S, ev), ev)

\* lines 250-261: the summary, or the navigator and then the question panel
layout(S, ev) ==
    IF S.session.completed \/ S.show_summary
    THEN S
    ELSE right_column(show_navigator(S, ev), ev)

\* main, after the sidebar: lines 229-261
body(S, ev, now) ==
    IF Strip(S.username) = "" \/ S.session = None
    THEN S
    ELSE layout(update_timer(reload_questions(S), now), ev)

\* one run of main; the clock reads of one run are microseconds apart and
\* all return now
main(S, ev, now) == body(sidebar(S, ev, now), ev, now)

NoEvent == [name |-> "rerun"]

\* the run an event causes and, after st.experimental_rerun(), the run
\* that follows it at once
Interaction(S, ev, now) ==
    IF Reruns(ev) THEN main(main(S, ev, now), NoEvent, now) ELSE main(S, ev, now)

----------------------------------------------------------------------------
(* The state machine: one action per widget event, each a whole script run *)

Cur ==
    [username |-> username, exam_label |-> exam_label, exam_code |-> exam_code,
     session |-> session, current_index |-> current_index,
     last_tick |-> last_tick, show_summary |-> show_summary,
     questions |-> questions, file |-> file]

\* no session is being followed: none is active, or it was resumed
Untracked == [py |-> "untracked"]

\* the question on screen
CurrentQid == session.question_order[current_index + 1]

\* the sidebar buttons are drawn
ButtonsShown == Strip(username) # ""

\* the navigator and the question panel are drawn
PanelShown ==
    /\ Strip(username) # ""
    /\ session # None
    /\ ~(session.completed \/ show_summary)

\* what the run of ev reports: lines 197, 204, 218, 220 and 374-377
Notice(ev, S) ==
    CASE ev.name = "start" ->
            IF CreateRaises(load_questions_for_exam(exam_code)) THEN "error" ELSE "started"
      [] ev.name = "resume" ->
            IF get_session(file, username, exam_code) # None THEN "restored" ELSE "not found"
      [] ev.name = "submit" ->
            IF Truthy(S.session.responses[CurrentQid].correct) THEN "correct" ELSE "incorrect"
      [] OTHER -> ""

NextLatest(ev, S) ==
    CASE ev.name = "start" /\ ~CreateRaises(load_questions_for_exam(exam_code)) ->
            [q \in DOMAIN S.session.responses |-> None]
      [] ev.name = "resume" /\ get_session(file, username, exam_code) # None -> Untracked
      [] ev.name = "submit" /\ latest # Untracked ->
            [latest EXCEPT ![CurrentQid] = PyStr(ev.opt)]
      [] OTHER -> latest

\* the variables take the app state S that the run of ev has left
Becomes(S, ev) ==
    /\ S.session # None => S.session.elapsed_seconds <= MaxElapsed
    /\ username' = S.username
    /\ exam_label' = S.exam_label
    /\ exam_code' = S.exam_code
    /\ session' = S.session
    /\ current_index' = S.current_index
    /\ last_tick' = S.last_tick
    /\ show_summary' = S.show_summary
    /\ questions' = S.questions
    /\ file' = S.file
    /\ notice' = Notice(ev, S)
    /\ latest' = NextLatest(ev, S)
    /\ UNCHANGED <<bank, names, times, deltas, last_saved, writers>>

Step(ev, now) == Becomes(Interaction(Cur, ev, now), ev)

\* a widget with no handler changes (the shuffle box, the radio, the number box)
Rerun == \E t \in times : Step(NoEvent, t)

EditUsername ==
    \E u \in (names \cup {""}) \ {username}, t \in times :
        Step([name |-> "edit", username |-> u], t)

SelectExam ==
    \E l \in ExamLabels \ {exam_label}, t \in times :
        Step([name |-> "select", label |-> l], t)

StartNew ==
    /\ ButtonsShown
    /\ \E shuffle \in BOOLEAN, t \in times :
        \E keys, shuffled \in Orderings(DOMAIN load_questions_for_exam(exam_code)) :
            Step([name |-> "start", keys |-> keys, shuffle |-> shuffle,
                  shuffled |-> shuffled], t)

Resume ==
    /\ ButtonsShown
    /\ \E t \in times : Step([name |-> "resume"], t)

Go ==
    /\ PanelShown
    /\ \E num \in 1 .. Len(session.question_order), t \in times :
        Step([name |-> "go", num |-> num], t)

NavButton ==
    /\ PanelShown
    /\ \E num \in 1 .. Len(session.question_order), t \in times :
        Step([name |-> "nav", num |-> num], t)

Previous ==
    /\ PanelShown
    /\ current_index # 0
    /\ \E t \in times : Step([name |-> "prev"], t)

NextQuestion ==
    /\ PanelShown
    /\ current_index # Len(session.question_order) - 1
    /\ \E t \in times : Step([name |-> "next"], t)

ToggleReview ==
    /\ PanelShown
    /\ \E t \in times :
        Step([name |-> "review",
              flag |-> ~session.responses[CurrentQid].review], t)

Submit ==
    /\ PanelShown
    /\ \E opt \in DOMAIN questions[CurrentQid].choices, t \in times :
        Step([name |-> "submit", opt |-> opt], t)

Finish ==
    /\ PanelShown
    /\ \E t \in times : Step([name |-> "finish"], t)

\* the files the app may find at its first run
InitialFiles ==
    {NoFile, TextFile(Invalid), TextFile(JObj(EmptyDict)),
     TextFile(JObj("alice" :> JNum(3)))}

\* the process stopped and started again (init_app, the file as it was), with
\* the name and the exam of the session that was active entered again
Restarted ==
    [Cur EXCEPT !.session = None,
                !.current_index = 0,
                !.show_summary = FALSE,
                !.questions = EmptyDict,
                !.username = session.username,
                !.exam_label = session.exam_label,
                !.exam_code = session.exam_code]

\* the session Resume Last Test returns then
Resumed == ResumeLastTest(Restarted, last_tick).session

\* no save_session call was followed, no other process is saving
NothingSaved == [k \in {} |-> None]
NoWriters == [w \in {} |-> None]

\* init_app
InitApp ==
    /\ username = ""
    /\ session = None
    /\ current_index = 0
    /\ last_tick \in times
    /\ show_summary = FALSE
    /\ exam_label = FirstExamLabel
    /\ exam_code = EXAM_OPTIONS[FirstExamLabel]
    /\ questions = EmptyDict
    /\ notice = ""
    /\ latest = Untracked
    /\ deltas = <<>>
    /\ last_saved = NothingSaved
    /\ writers = NoWriters

\* one user answers the two questions of the scenario
Init ==
    /\ bank = BankLetters
    /\ names = {"alice"}
    /\ times = 0 .. MaxClock
    /\ file \in InitialFiles
    /\ InitApp

Next ==
    \/ Rerun
    \/ EditUsername
    \/ SelectExam
    \/ StartNew
    \/ Resume
    \/ Go
    \/ NavButton
    \/ Previous
    \/ NextQuestion
    \/ ToggleReview
    \/ Submit
    \/ Finish

Spec == Init /\ [][Next]_vars

\* the events of a session of one question, whose Previous and Next buttons
\* are disabled
NextSingle ==
    \/ Rerun
    \/ EditUsername
    \/ SelectExam
    \/ StartNew
    \/ Resume
    \/ Go
    \/ NavButton
    \/ ToggleReview
    \/ Submit
    \/ Finish

\* one user answers one question, over a time long enough to count seconds
InitClock ==
    /\ bank = BankOne
    /\ names = {"alice"}
    /\ times = 0 .. MaxLongClock
    /\ file \in InitialFiles
    /\ InitApp

SpecClock == InitClock /\ [][NextSingle]_vars

\* one user answers a question whose choice keys hold a ")"
InitBracketed ==
    /\ bank = BankBracketed
    /\ names = {"alice"}
    /\ times = 0 .. MaxClock
    /\ file \in InitialFiles
    /\ InitApp

SpecBracketed == InitBracketed /\ [][NextSingle]_vars

\* one user moves between a test of two questions and a test of one, the
\* clock standing still
InitTwoSizes ==
    /\ bank = BankTwoSizes
    /\ names = {"alice"}
    /\ times = {0}
    /\ file = NoFile
    /\ InitApp

SpecTwoSizes == InitTwoSizes /\ [][Next]_vars

\* two users take turns at the username field, over one question
InitNames ==
    /\ bank = BankOne
    /\ names = {"alice", "bob"}
    /\ times = 0 .. MaxClock
    /\ file \in InitialFiles
    /\ InitApp

SpecNames == InitNames /\ [][NextSingle]_vars

----------------------------------------------------------------------------
(* update_timer alone: a series of calls on a new session *)

InitTimer ==
    /\ bank = BankOne
    /\ names = {"alice"}
    /\ times = 0 .. MaxTimerClock
    /\ file = NoFile
    /\ username = "alice"
    /\ exam_label = FirstExamLabel
    /\ exam_code = EXAM_OPTIONS[FirstExamLabel]
    /\ questions = load_questions_for_exam(exam_code)
    /\ \E t \in times :
        session = create_new_session(username, exam_label, exam_code,
                                     <<"Q2">>, FALSE, <<"Q2">>, t)
    /\ current_index = 0
    /\ last_tick \in times
    /\ show_summary = FALSE
    /\ notice = ""
    /\ latest = Untracked
    /\ deltas = <<>>
    /\ last_saved = NothingSaved
    /\ writers = NoWriters

TimerCall ==
    /\ Len(deltas) < MaxCalls
    /\ \E now \in times :
        LET S == update_timer(Cur, now)
        IN  /\ session' = S.session
            /\ last_tick' = S.last_tick
            /\ file' = S.file
            /\ deltas' = IF now > last_tick
                         THEN Append(deltas, now - last_tick) ELSE deltas
            /\ UNCHANGED <<username, exam_label, exam_code, current_index,
                           show_summary, questions, bank, names, times,
                           notice, latest, last_saved, writers>>

NextTimer == TimerCall

SpecTimer == InitTimer /\ [][NextTimer]_vars

----------------------------------------------------------------------------
(* state_utils.py alone: save_session and get_session called on a file of  *)
(* any content.  username, exam_code and session hold the last call's      *)
(* arguments (of a save) or its arguments and result (of a get).           *)

\* the files the calls may find, a JSON document that is no object among them
StoreFiles == InitialFiles \cup {TextFile(JArr(<<>>))}

NewSession == create_new_session("alice", FirstExamLabel, "associate",
                                 <<"Q2", "Q1">>, FALSE, <<"Q2", "Q1">>, 0)
AnsweredSession ==
    [NewSession EXCEPT !.responses["Q2"] = SubmitRecord(@, Q2, <<"C">>),
                       !.responses["Q1"].review = TRUE]
FinishedSession ==
    [create_new_session("bob", FirstExamLabel, "associate",
                        <<"Q1", "Q2">>, TRUE, <<"Q2", "Q1">>, MaxClock)
        EXCEPT !.responses["Q1"] = SubmitRecord(@, Q1, <<"A">>),
               !.elapsed_seconds = MaxElapsed,
               !.completed = TRUE]

SampleSessions == {NewSession, AnsweredSession, FinishedSession}

InitStore ==
    /\ bank = BankLetters
    /\ names = {"alice", "bob"}
    /\ times = 0 .. MaxClock
    /\ file \in StoreFiles
    /\ InitApp

SaveCall ==
    \E u \in names, e \in ExamCodes, s \in SampleSessions :
        /\ username' = u
        /\ exam_code' = e
        /\ session' = s
        /\ file' = IF GetRaises(file) THEN file ELSE save_session(file, u, e, s)
        /\ notice' = IF GetRaises(file) THEN "save raised" ELSE "saved"
        /\ last_saved' = IF GetRaises(file) THEN last_saved
                                           ELSE DictSet(last_saved, <<u, e>>, s)
        /\ UNCHANGED <<exam_label, current_index, last_tick, show_summary,
                       questions, bank, names, times, latest, deltas, writers>>

GetCall ==
    \E u \in names, e \in ExamCodes :
        /\ username' = u
        /\ exam_code' = e
        /\ session' = IF GetRaises(file) THEN None ELSE get_session(file, u, e)
        /\ notice' = IF GetRaises(file) THEN "get raised" ELSE "got"
        /\ UNCHANGED <<exam_label, current_index, last_tick, show_summary,
                       questions, file, bank, names, times, latest, deltas,
                       last_saved, writers>>

NextStore == SaveCall \/ GetCall

SpecStore == InitStore /\ [][NextStore]_vars

----------------------------------------------------------------------------
(* create_new_session alone, called on any question set in any iteration   *)
(* order.  questions holds the dict passed, session the dict returned.     *)

CreateIds == {"Q1", "Q10", "Q2"}

InitCreate ==
    /\ bank = BankLetters
    /\ names = {"alice", "bob"}
    /\ times = 0 .. MaxClock
    /\ file = NoFile
    /\ InitApp

CreateCall ==
    \E u \in names, l \in ExamLabels, ids \in (SUBSET CreateIds) \ {{}},
       shuffle \in BOOLEAN, now \in times :
        \E keys, shuffled \in Orderings(ids) :
            /\ username' = u
            /\ exam_label' = l
            /\ exam_code' = EXAM_OPTIONS[l]
            /\ questions' = [q \in ids |-> Q1]
            /\ session' = create_new_session(u, l, EXAM_OPTIONS[l], keys,
                                              shuffle, shuffled, now)
            /\ notice' = IF shuffle THEN "shuffled" ELSE "sorted"
            /\ UNCHANGED <<current_index, last_tick, show_summary, file, bank,
                           names, times, latest, deltas, last_saved, writers>>

NextCreate == CreateCall

SpecCreate == InitCreate /\ [][NextCreate]_vars

----------------------------------------------------------------------------
(* state_utils.py under two processes.  A save_session call reads the      *)
(* whole file (line 46) and later writes the whole file (lines 47-52);     *)
(* nothing is held between the two, so the other process may run between.  *)

Writers == {"w1", "w2"}

\* a process that is not in save_session
Idle == [pc |-> "idle"]

\* a file that holds a session already
FileWithSession == save_session(NoFile, "alice", "associate", NewSession)

\* the files the processes may find
WriterFiles == {NoFile, TextFile(Invalid), TextFile(JObj(EmptyDict)), FileWithSession}

InitWriters ==
    /\ bank = BankLetters
    /\ names = {"alice", "bob"}
    /\ times = 0 .. MaxClock
    /\ file \in WriterFiles
    /\ username = ""
    /\ session = None
    /\ current_index = 0
    /\ last_tick \in times
    /\ show_summary = FALSE
    /\ exam_label = FirstExamLabel
    /\ exam_code = EXAM_OPTIONS[FirstExamLabel]
    /\ questions = EmptyDict
    /\ notice = ""
    /\ latest = Untracked
    /\ deltas = <<>>
    /\ last_saved = NothingSaved
    /\ writers = [w \in Writers |-> Idle]

\* as WriterView, the file read again where it is written
WriterViewFresh(w) == load_global_state(file)

\* global_state of the call of process w: what line 46 read
WriterView(w) == writers[w].global_state

\* save_session, line 46: the process reads the file
SaveRead(w) ==
    /\ writers[w].pc = "idle"
    /\ \E u \in names, e \in ExamCodes, s \in {NewSession, AnsweredSession} :
          writers' = [writers EXCEPT ![w] =
                        [pc |-> "loaded", username |-> u, exam_code |-> e,
                         session |-> s, global_state |-> load_global_state(file)]]
    /\ UNCHANGED <<username, exam_label, exam_code, session, current_index,
                   last_tick, show_summary, questions, file, bank, names, times,
                   notice, latest, deltas, last_saved>>

\* save_session, lines 47-52: the process changes what it read and writes it
SaveWrite(w) ==
    /\ writers[w].pc = "loaded"
    /\ file' = save_global_state(
                  save_session_state(WriterView(w), writers[w].username,
                                     writers[w].exam_code, writers[w].session))
    /\ writers' = [writers EXCEPT ![w].pc = "done"]
    /\ UNCHANGED <<username, exam_label, exam_code, session, current_index,
                   last_tick, show_summary, questions, bank, names, times,
                   notice, latest, deltas, last_saved>>

NextWriters == \E w \in Writers : SaveRead(w) \/ SaveWrite(w)

SpecWriters == InitWriters /\ [][NextWriters]_vars

----------------------------------------------------------------------------
(* What the claims speak of *)

\* the session stored for (u, e), or None
Stored(u, e) == get_session(file, u, e)

\* the keys under which state.json holds a session
StoredKeys == {k \in names \X ExamCodes : Stored(k[1], k[2]) # None}

\* the active session and every stored one
AllSessions ==
    (IF session # None THEN {session} ELSE {}) \cup {Stored(k[1], k[2]) : k \in StoredKeys}

\* the bank's record of question q of session s
QuestionOf(s, q) == load_questions_for_exam(s.exam_code)[q]

SameKey(a, b) == a.username = b.username /\ a.exam_code = b.exam_code

\* the last run was a Submit Answer
Submitted == notice \in {"correct", "incorrect"}

----------------------------------------------------------------------------
(* C1: in every reachable state, the question_order of the active session  *)
(* and of every stored session holds exactly the keys of its responses,    *)
(* each once, and is not empty.                                            *)

OrderIsPermutation(s) ==
    /\ Len(s.question_order) >= 1
    /\ Range(s.question_order) = DOMAIN s.responses
    /\ \A i, j \in DOMAIN s.question_order :
          s.question_order[i] = s.question_order[j] => i = j

C1_OrderIsPermutation == \A s \in AllSessions : OrderIsPermutation(s)

\* a shuffled session that was answered, marked, finished and resumed
C1_Witness ==
    /\ notice = "restored"
    /\ session.question_order = <<"Q2", "Q1">>
    /\ Truthy(session.responses["Q2"].choice)
    /\ session.responses["Q1"].review
    /\ session.completed

----------------------------------------------------------------------------
(* C2: in every reachable state choice and correct of a response are unset *)
(* together, and when set correct = (choice = correct_answer); a run other *)
(* than a Submit Answer leaves both fields of the session's responses as   *)
(* they were (Start New Test makes a new session).                         *)

ChoiceAndCorrectAgree(s) ==
    \A q \in DOMAIN s.responses :
        LET r == s.responses[q]
        IN  /\ r.choice = None <=> r.correct = None
            /\ r.choice # None =>
                  r.correct = PyBool(r.choice.v = QuestionOf(s, q).correct_answer)

AnswersOf(s) ==
    [q \in DOMAIN s.responses |-> <<s.responses[q].choice, s.responses[q].correct>>]

C2_ChoiceAndCorrectTogether ==
    [][/\ \A s \in AllSessions' : ChoiceAndCorrectAgree(s)
       /\ (/\ session # None
           /\ ~Submitted'
           /\ notice' # "started"
           /\ SameKey(session, session'))
          => AnswersOf(session') = AnswersOf(session)]_vars

\* a wrong answer recorded beside a question never answered
C2_Witness ==
    /\ session # None
    /\ session.responses["Q2"].choice = PyStr(<<"C">>)
    /\ session.responses["Q2"].correct = PyBool(FALSE)
    /\ session.responses["Q1"].choice = None
    /\ session.responses["Q1"].correct = None

----------------------------------------------------------------------------
(* C3: a Submit Answer leaves the response holding the choice submitted    *)
(* and its correctness against that choice, whatever was recorded before;  *)
(* submitting the choice already submitted leaves the response as it was.  *)

C3_SubmitKeepsLastChoice ==
    [][(Submitted' /\ latest' # Untracked) =>
          LET q == CurrentQid
              c == latest'[q]
          IN  /\ session'.responses[q] =
                    [choice |-> c,
                     correct |-> PyBool(c.v = QuestionOf(session, q).correct_answer),
                     review |-> session.responses[q].review]
              /\ latest[q] = c => session'.responses[q] = session.responses[q]]_vars

\* C was submitted for Q2 and is what the response holds
C3_Witness ==
    /\ Submitted
    /\ latest # Untracked
    /\ latest["Q2"] = PyStr(<<"C">>)
    /\ CurrentQid = "Q2"
    /\ session.responses["Q2"].choice = PyStr(<<"C">>)

----------------------------------------------------------------------------
(* C4: compute_summary of the active session and of every stored session   *)
(* has attempted = correct + incorrect, 0 <= correct <= attempted,          *)
(* 0 <= percent <= 100, and percent = 0 when attempted = 0.                 *)

SummaryInRange(m) ==
    /\ m.attempted = m.correct + m.incorrect
    /\ 0 <= m.correct /\ m.correct <= m.attempted
    /\ m.percent.den > 0
    /\ 0 <= m.percent.num /\ m.percent.num <= 100 * m.percent.den
    /\ m.attempted = 0 => m.percent.num = 0

C4_SummaryInRange == \A s \in AllSessions : SummaryInRange(compute_summary(s))

\* one question answered wrongly, the other not answered
C4_Witness ==
    /\ session # None
    /\ compute_summary(session).attempted = 1
    /\ compute_summary(session).correct = 0
    /\ Cardinality(DOMAIN session.responses) = 2

----------------------------------------------------------------------------
(* C5: for a session followed since its creation, attempted is the number  *)
(* of questions submitted at least once, correct the number of those whose *)
(* last submitted choice is the correct_answer, incorrect the rest, and    *)
(* percent is 100 * correct / attempted.                                   *)

SubmittedOnce == {q \in DOMAIN latest : latest[q] # None}
SubmittedRight ==
    {q \in SubmittedOnce : latest[q].v = QuestionOf(session, q).correct_answer}

C5_SummaryCountsSubmissions ==
    (session # None /\ latest # Untracked) =>
        LET m == compute_summary(session)
        IN  /\ m.attempted = Cardinality(SubmittedOnce)
            /\ m.correct = Cardinality(SubmittedRight)
            /\ m.incorrect = Cardinality(SubmittedOnce \ SubmittedRight)
            /\ m.attempted > 0 =>
                  m.percent.num = 100 * m.correct /\ m.percent.den = m.attempted

\* the scenario: alice, not shuffled, Q1 -> A and Q2 -> C: 2, 1, 1 and 50%
C5_Witness ==
    /\ session # None
    /\ session.username = "alice"
    /\ session.question_order = <<"Q1", "Q2">>
    /\ latest # Untracked
    /\ latest["Q1"] = PyStr(<<"A">>)
    /\ latest["Q2"] = PyStr(<<"C">>)
    /\ compute_summary(session) =
          [attempted |-> 2, correct |-> 1, incorrect |-> 1,
           percent |-> [num |-> 100, den |-> 2]]

----------------------------------------------------------------------------
(* C6: over a series of update_timer calls on a new session,               *)
(* elapsed_seconds is the sum of the floors of the positive deltas, never  *)
(* decreases, and a call with now <= last_tick leaves elapsed_seconds and  *)
(* last_tick as they were.                                                 *)

\* the whole seconds in d clock units
FloorSeconds(d) == CHOOSE k \in 0 .. d : k * Scale <= d /\ d < (k + 1) * Scale

RECURSIVE SumFloors(_)
SumFloors(ds) == IF ds = <<>> THEN 0 ELSE FloorSeconds(Head(ds)) + SumFloors(Tail(ds))

C6_TimerSumsFlooredDeltas ==
    [][/\ session'.elapsed_seconds = SumFloors(deltas')
       /\ session'.elapsed_seconds >= session.elapsed_seconds
       /\ deltas' = deltas =>
             /\ session'.elapsed_seconds = session.elapsed_seconds
             /\ last_tick' = last_tick
       /\ deltas' # deltas => last_tick' = last_tick + deltas'[Len(deltas')]]_vars

\* half a second, then a second and a half: one second counted, not two
C6_Witness ==
    /\ deltas = <<1, 3>>
    /\ session.elapsed_seconds = 1
    /\ last_tick = 4

----------------------------------------------------------------------------
(* C7: after save_session(u, e, s) on a file of any content,               *)
(* get_session(u, e) returns s.                                            *)

C7_RoundTrip ==
    notice \in {"saved", "save raised"} =>
        /\ ~GetRaises(file)
        /\ get_session(file, username, exam_code) = session

----------------------------------------------------------------------------
(* C8: Finish leaves completed and show_summary true and the stored copy   *)
(* equal to the session, and a second Finish would change nothing; a       *)
(* completed session stays completed in memory and in state.json through   *)
(* every later run that does not start a new session under its key.        *)

FinishSettles ==
    PanelShown =>
        \A t \in times :
            LET S == Interaction(Cur, [name |-> "finish"], t)
            IN  /\ S.session.completed
                /\ S.show_summary
                /\ get_session(S.file, S.session.username, S.session.exam_code) = S.session
                /\ FinishTest(S) = S

C8_CompletedIsFinal ==
    [][/\ FinishSettles
       /\ (/\ session # None
           /\ session.completed
           /\ notice' # "started"
           /\ SameKey(session, session'))
          => session'.completed
       /\ \A k \in StoredKeys :
            (/\ Stored(k[1], k[2]).completed
             /\ ~(notice' = "started" /\ k = <<username', exam_code'>>))
            => /\ get_session(file', k[1], k[2]) # None
               /\ get_session(file', k[1], k[2]).completed]_vars

\* a finished session, resumed, with a second counted
C8_Witness ==
    /\ notice = "restored"
    /\ session.completed
    /\ show_summary
    /\ session.elapsed_seconds >= 1
    /\ Stored(session.username, session.exam_code) = session

----------------------------------------------------------------------------
(* C9: where the selected exam has no questions, the Start New Test        *)
(* handler leaves the active session, current_index and state.json as      *)
(* they were, and the run that reports the error leaves what a run         *)
(* without the click leaves.                                               *)

FailedStartChangesNothing ==
    (ButtonsShown /\ CreateRaises(load_questions_for_exam(exam_code))) =>
        \A t \in times, shuffle \in BOOLEAN :
            LET S == StartNewTest(Cur, <<>>, shuffle, <<>>, t)
            IN  /\ S.session = session
                /\ S.current_index = current_index
                /\ S.file = file

C9_EmptyBankCreatesNothing ==
    [][/\ FailedStartChangesNothing
       /\ notice' = "error" =>
            \E t \in times :
                LET R == Interaction(Cur, NoEvent, t)
                IN  /\ session' = R.session
                    /\ current_index' = R.current_index
                    /\ file' = R.file]_vars

\* the error is reported while an answered session is active; nothing is
\* stored for the exam without questions
C9_Witness ==
    /\ notice = "error"
    /\ session # None
    /\ Truthy(session.responses["Q2"].choice)
    /\ Stored(username, exam_code) = None
    /\ Stored(session.username, session.exam_code) # None

----------------------------------------------------------------------------
(* C10: every recorded choice is a key of its question's choices.          *)

C10_RecordedChoiceIsKey ==
    \A s \in AllSessions :
        \A q \in DOMAIN s.responses :
            s.responses[q].choice # None =>
                s.responses[q].choice.v \in DOMAIN QuestionOf(s, q).choices

----------------------------------------------------------------------------
(* C11: a save_session(u, e, s) that does not raise leaves get_session of  *)
(* every other key as it was, and after it get_session of every key saved  *)
(* in the series returns the last session saved under that key.            *)

C11_SaveChangesOneLeaf ==
    [][notice' = "saved" =>
          /\ \A k \in (names \X ExamCodes) \ {<<username', exam_code'>>} :
                get_session(file', k[1], k[2]) = get_session(file, k[1], k[2])
          /\ \A k \in DOMAIN last_saved' :
                get_session(file', k[1], k[2]) = last_saved'[k]]_vars

\* three keys saved, two of them of one user
C11_Witness ==
    /\ notice = "saved"
    /\ {<<"alice", "associate">>, <<"alice", "professional">>,
        <<"bob", "associate">>} \subseteq DOMAIN last_saved
    /\ Stored("alice", "associate") = AnsweredSession
    /\ Stored("alice", "professional") = NewSession
    /\ Stored("bob", "associate") = FinishedSession
    /\ <<username, exam_code, session>> = <<"alice", "associate", AnsweredSession>>

----------------------------------------------------------------------------
(* C12: with two processes saving, the file a process leaves holds its     *)
(* session under its key and, under every other key, what that process     *)
(* read, whatever was written since (the last write wins); so a session    *)
(* one process saved can be missing after the other's save of another key. *)

WriterKey(w) == <<writers[w].username, writers[w].exam_code>>

C12_LastWriteWins ==
    [][\A w \in Writers :
          (writers[w].pc = "loaded" /\ writers'[w].pc = "done") =>
              /\ get_session(file', WriterKey(w)[1], WriterKey(w)[2]) = writers[w].session
              /\ \A k \in (names \X ExamCodes) \ {WriterKey(w)} :
                    get_session(file', k[1], k[2]) =
                        get_session(TextFile(writers[w].global_state), k[1], k[2])]_vars

\* both saves are complete, under different keys; the file holds the
\* session of one process and nothing under the key of the other
C12_Witness ==
    \E a, b \in Writers :
        /\ writers[a].pc = "done" /\ writers[b].pc = "done"
        /\ WriterKey(a) # WriterKey(b)
        /\ Stored(WriterKey(b)[1], WriterKey(b)[2]) = writers[b].session
        /\ Stored(WriterKey(a)[1], WriterKey(a)[2]) = None

----------------------------------------------------------------------------
(* C13: on a file that is there and does not hold a JSON object (text that *)
(* is not JSON, or another JSON document) no call raises: get_session      *)
(* returns None for every key, and a save_session succeeds and reads back. *)

Malformed(f) == f.exists /\ f.content.j # "obj"

C13_MalformedReadsAsEmpty ==
    [][Malformed(file) =>
          /\ notice' \in {"got", "saved"}
          /\ notice' = "got" => session' = None
          /\ notice' = "saved" =>
                get_session(file', username', exam_code') = session']_vars

----------------------------------------------------------------------------
(* C14: a run that sets the review box of the question on screen leaves    *)
(* what the same run without it leaves, but for that question's review     *)
(* flag: the choice and correct of the question, every other response,     *)
(* completed and compute_summary are as before the run, answered or not;   *)
(* and a Submit Answer leaves every review flag as it was.                 *)

ReviewSetsOnlyFlag ==
    PanelShown =>
        \A t \in times, flag \in BOOLEAN :
            LET T == Interaction(Cur, [name |-> "review", flag |-> flag], t)
                R == Interaction(Cur, NoEvent, t)
            IN  /\ T = [R EXCEPT !.session.responses[CurrentQid].review = flag]
                /\ T.session.responses =
                      [session.responses EXCEPT ![CurrentQid].review = flag]
                /\ T.session.completed = session.completed
                /\ T.session.elapsed_seconds = R.session.elapsed_seconds
                /\ compute_summary(T.session) = compute_summary(session)

C14_ReviewIsIndependent ==
    [][/\ ReviewSetsOnlyFlag
       /\ Submitted' =>
            \A q \in DOMAIN session.responses :
                session'.responses[q].review = session.responses[q].review]_vars

\* marked for review: a question that was answered and one that was not
C14_Witness ==
    /\ PanelShown
    /\ notice = ""
    /\ session.responses["Q2"].review
    /\ session.responses["Q2"].choice # None
    /\ session.responses["Q1"].review
    /\ session.responses["Q1"].choice = None

----------------------------------------------------------------------------
(* C15: a create_new_session call with shuffle false returns, for every    *)
(* iteration order of the questions passed, the question ids in ascending  *)
(* lexical order: compared character by character, a prefix first.         *)

\* the characters of the ids and their code points
Spelling ==
    ("Q1" :> <<"Q", "1">>) @@ ("Q10" :> <<"Q", "1", "0">>) @@ ("Q2" :> <<"Q", "2">>)
CodePoint == ("0" :> 48) @@ ("1" :> 49) @@ ("2" :> 50) @@ ("Q" :> 81)

RECURSIVE LexLess(_, _)
LexLess(a, b) ==
    IF b = <<>> THEN FALSE
    ELSE IF a = <<>> THEN TRUE
    ELSE IF Head(a) = Head(b) THEN LexLess(Tail(a), Tail(b))
    ELSE CodePoint[Head(a)] < CodePoint[Head(b)]

LexSorted(ids) ==
    CHOOSE seq \in Orderings(ids) :
        \A i, j \in DOMAIN seq :
            i < j => LexLess(Spelling[seq[i]], Spelling[seq[j]])

C15_UnshuffledOrderIsSorted ==
    [][notice' = "sorted" =>
          /\ session'.question_order = LexSorted(DOMAIN questions')
          /\ \A keys \in Orderings(DOMAIN questions') :
                create_new_session(username', exam_label', exam_code', keys, FALSE,
                                   keys, session'.started_at) = session']_vars

\* three ids, of which the numeric order is not the lexical one
C15_Witness ==
    /\ notice = "sorted"
    /\ session.question_order = <<"Q1", "Q10", "Q2">>

----------------------------------------------------------------------------
(* C16: no run but a Start New Test that creates a session changes the     *)
(* question_order or the started_at of the session under a key: not of the *)
(* active session while it stays under its key (a Resume of that key       *)
(* included), and not of any stored session, which also stays stored.      *)

Created(s) == <<s.question_order, s.started_at>>

C16_OrderAndStartAreFixed ==
    [][/\ (/\ session # None
           /\ session' # None
           /\ notice' # "started"
           /\ SameKey(session, session'))
          => Created(session') = Created(session)
       /\ \A k \in StoredKeys :
            ~(notice' = "started" /\ k = <<username', exam_code'>>)
            => /\ get_session(file', k[1], k[2]) # None
               /\ Created(get_session(file', k[1], k[2])) = Created(Stored(k[1], k[2]))]_vars

\* a shuffled session created at time 0, answered, finished and resumed at
\* time 1
C16_Witness ==
    /\ notice = "restored"
    /\ Created(session) = <<(<<"Q2", "Q1">>), 0>>
    /\ last_tick = 1
    /\ session.completed
    /\ Truthy(session.responses["Q1"].choice)
    /\ Created(Stored(session.username, session.exam_code)) = Created(session)

----------------------------------------------------------------------------
(* C17: were the process to stop after any run, Resume Last Test would     *)
(* return the active session but for review flags set since the last save; *)
(* after a Start New Test or a Submit Answer, and from a Finish on, it      *)
(* returns the session as it is, and after any other run in which the      *)
(* timer saw a positive delta, the session as the timer call of that run   *)
(* left it.                                                                *)

WithoutReviews(s) ==
    [s EXCEPT !.responses = [q \in DOMAIN s.responses |->
                                [s.responses[q] EXCEPT !.review = FALSE]]]

Ticked ==
    /\ session # None
    /\ session' # None
    /\ SameKey(session, session')
    /\ last_tick' > last_tick
    /\ notice' \notin {"started", "restored"}

\* what Resume Last Test would return, against the active session
ResumeKeepsSaved ==
    session # None =>
        /\ Resumed # None
        /\ WithoutReviews(Resumed) = WithoutReviews(session)
        /\ (notice \in {"started", "correct", "incorrect"} \/ session.completed)
              => Resumed = session

C17_ResumeLosesOneTickAtMost ==
    [][/\ ResumeKeepsSaved
       /\ Ticked =>
            LET resumed == Resumed'
            IN  resumed \in
                    {session',
                     [session EXCEPT !.elapsed_seconds = session'.elapsed_seconds]}]_vars

\* a second was counted and saved; a review flag set since would be lost
C17_Witness ==
    /\ session # None
    /\ session.elapsed_seconds >= 1
    /\ Truthy(session.responses["Q2"].choice)
    /\ session.responses["Q2"].review
    /\ Resumed = [session EXCEPT !.responses["Q2"].review = FALSE]

----------------------------------------------------------------------------
(* C18: while the active session is completed the panel is not drawn, and  *)
(* a run of main leaves its responses as they are even for the event of a  *)
(* Submit Answer or of the review box; no run but a Start New Test that    *)
(* creates a session changes the responses or the compute_summary of a     *)
(* completed session that stays active under its key.                      *)

CompletedIsRouted ==
    (session # None /\ session.completed /\ ButtonsShown) =>
        /\ ~PanelShown
        /\ \A t \in times :
              /\ \A opt \in DOMAIN QuestionOf(session, CurrentQid).choices :
                    Interaction(Cur, [name |-> "submit", opt |-> opt], t).session.responses
                        = session.responses
              /\ \A flag \in BOOLEAN :
                    Interaction(Cur, [name |-> "review", flag |-> flag], t).session.responses
                        = session.responses

C18_CompletedResponsesAreFrozen ==
    [][/\ CompletedIsRouted
       /\ (/\ session # None
           /\ session.completed
           /\ session' # None
           /\ notice' # "started"
           /\ SameKey(session, session'))
          => /\ session'.responses = session.responses
             /\ compute_summary(session') = compute_summary(session)]_vars

\* a finished session with an answer and a review mark, still active after
\* a Start New Test that failed on the other exam
C18_Witness ==
    /\ session # None
    /\ session.completed
    /\ notice = "error"
    /\ exam_code # session.exam_code
    /\ Truthy(session.responses["Q2"].choice)
    /\ session.responses["Q1"].review
    /\ compute_summary(session).attempted = 1

----------------------------------------------------------------------------
(* C19: in every reachable state, every session state.json holds under a   *)
(* user and an exam code has that username and that exam_code, whatever    *)
(* the username field and the exam selector hold.                          *)

\* the users of state.json and, per user, the exam codes of its block
FileUsers == DOMAIN load_global_state(file).v
FileKeys ==
    {k \in FileUsers \X ExamCodes :
        /\ load_global_state(file).v[k[1]].j = "obj"
        /\ k[2] \in DOMAIN load_global_state(file).v[k[1]].v}

C19_StoredUnderOwnKey ==
    \A k \in FileKeys :
        /\ Stored(k[1], k[2]).username = k[1]
        /\ Stored(k[1], k[2]).exam_code = k[2]

\* alice's session is saved by a Submit Answer made while the username
\* field holds bob and the selector the other exam
C19_Witness ==
    /\ Submitted
    /\ session.username = "alice"
    /\ session.exam_code = "associate"
    /\ username = "bob"
    /\ exam_code = "professional"
    /\ FileKeys = {<<"alice", "associate">>}
    /\ Stored("alice", "associate") = session

----------------------------------------------------------------------------
(* C20: in every reachable state with an active session, current_index is  *)
(* at least 0 and less than the length of question_order; and where the    *)
(* panel is drawn, Go and the navigator buttons on any number offered, and *)
(* Previous and Next even at the ends, leave it so.                        *)

IndexInRange(S) ==
    S.session # None =>
        0 <= S.current_index /\ S.current_index < Len(S.session.question_order)

NavigationStaysInRange ==
    PanelShown =>
        \A t \in times :
            /\ \A name \in {"prev", "next"} :
                  IndexInRange(Interaction(Cur, [name |-> name], t))
            /\ \A name \in {"go", "nav"}, num \in 1 .. Len(session.question_order) :
                  IndexInRange(Interaction(Cur, [name |-> name, num |-> num], t))

C20_IndexInRange == IndexInRange(Cur) /\ NavigationStaysInRange

\* the test of one question resumed, the test of two questions in the store
C20_Witness ==
    /\ notice = "restored"
    /\ session.exam_code = "professional"
    /\ Len(session.question_order) = 1
    /\ current_index = 0
    /\ Stored("alice", "associate") # None
    /\ Len(Stored("alice", "associate").question_order) = 2

====
